---- MODULE Spec2Model ----
(***************************************************************************)
(* The tab-ring state machine of the tabbed editor prototypes, in its two   *)
(* forms: the class TabbedEditorState (with TabState and EditorState) and  *)
(* the record-and-functions TabbedEditorsMachine, each behind the reducer  *)
(* that the UI dispatches actions to and the effect that persists it.      *)
(*                                                                         *)
(* Strings are sequences of one-character strings, so that split, slice    *)
(* and length are computed as the code computes them.  A TabState object   *)
(* carries `ref`, the identity of the object (what `new TabState` or an    *)
(* object literal returns); two tabs with the same title and text are      *)
(* still two objects.                                                      *)
(***************************************************************************)
EXTENDS Integers, Sequences, FiniteSets, TLC

\* ------------------------------------------------------------------ bounds

\* The most tabs the ring is allowed to hold (new-tab is disabled beyond it).
MaxTabs == 4

\* Directions dispatched range over -MaxDir .. MaxDir.
MaxDir == 3

\* ------------------------------------------------------------- JavaScript

\* The value of a missing property or an out-of-range array element.
undefined == [undefined |-> TRUE]

\* What localStorage.getItem returns for a key never set (JSON.parse gives null).
null == [null |-> TRUE]

Min(a, b) == IF a < b THEN a ELSE b

Max(a, b) == IF a > b THEN a ELSE b

\* arr[i], 0-based.
At(arr, i) == IF i \in 0..(Len(arr) - 1) THEN arr[i + 1] ELSE undefined

\* Array.prototype.slice(start, end), 0-based, negative indexes from the end.
RelIndex(len, i) == IF i < 0 THEN Max(len + i, 0) ELSE Min(i, len)

slice(arr, start, end) == SubSeq(arr, RelIndex(Len(arr), start) + 1, RelIndex(Len(arr), end))

\* arr.slice(start)
sliceFrom(arr, start) == slice(arr, start, Len(arr))

\* What Array.prototype.splice(start, deleteCount) leaves in the array.
splice(arr, start, deleteCount) ==
    LET len == Len(arr)
        from == RelIndex(len, start)
        count == Min(Max(deleteCount, 0), len - from)
    IN SubSeq(arr, 1, from) \o SubSeq(arr, from + count + 1, len)

\* What Array.prototype.reverse() leaves in the array.
reverse(arr) == [i \in 1..Len(arr) |-> arr[Len(arr) + 1 - i]]

\* text.split("\n")[0]: the text before the first newline.
RECURSIVE FirstLine(_)
FirstLine(text) ==
    IF text = <<>> \/ Head(text) = "\n" THEN <<>>
    ELSE <<Head(text)>> \o FirstLine(Tail(text))

\* ---------------------------------------------------------------- strings

\* A string is the sequence of its characters.  Where a string is expected, a
\* value that is not a string is a one-element sequence naming it.
UndefinedStr == <<"undefined">>

\* The number 5 where a string is expected.
FiveStr == <<"number 5">>

\* A string where an array of tabs is expected.
StringForArray == <<[string |-> TRUE]>>

\* {}: an object without properties.
EmptyObject == [p \in {} |-> p]

\* json.key where an object or an array is expected: undefined when json has no such property.
Prop(json, key) == IF key \in DOMAIN json THEN json[key] ELSE undefined

\* json.key where a string is expected.
PropStr(json, key) == IF key \in DOMAIN json THEN json[key] ELSE UndefinedStr

\* The outcome of a call that threw: reading a property of undefined or null,
\* or calling a method the value does not have, throws a TypeError.
Thrown == [thrown |-> "TypeError"]

Untitled == <<"U", "n", "t", "i", "t", "l", "e", "d">>

Ellipsis == <<".", ".", ".">>

\* The longest first line shown whole in a title.
TitleMax == 10

\* The texts the editor view dispatches: "", "Hi\nrest", "HelloWorldXYZ\nrest".
Texts ==
    { <<>>,
      <<"H", "i", "\n", "r", "e", "s", "t">>,
      <<"H", "e", "l", "l", "o", "W", "o", "r", "l", "d", "X", "Y", "Z", "\n", "r", "e", "s", "t">> }

Directions == (-MaxDir)..MaxDir

\* ------------------------------------------------------------ EditorState

EditorState_new(text) == [text |-> text]

\* A faulty variant: the new text is appended to the old one.
EditorState_apply_Appends(this, action) == EditorState_new(this.text \o action.text)

EditorState_apply(this, action) == EditorState_new(action.text)

EditorState_toJSON(this) == [text |-> this.text]

\* json.text throws on undefined and null; any other value of text is taken as it is.
EditorState_fromJSON(json) ==
    IF json = undefined \/ json = null THEN Thrown
    ELSE EditorState_new(PropStr(json, "text"))

\* --------------------------------------------------------------- TabState

IsTab(t) == DOMAIN t = {"ref", "title", "editorState"}

\* new TabState({title, editorState}); ref is the new object's identity.
TabState_new(ref, title, editorState) == [ref |-> ref, title |-> title, editorState |-> editorState]

TabState_toJSON(this) == [title |-> this.title, editorState |-> EditorState_toJSON(this.editorState)]

\* A faulty variant: the title is cut from the whole text, not from its first line.
Title_WholeText(text) ==
    LET title == IF text = <<>> THEN Untitled ELSE text
    IN IF Len(title) > TitleMax THEN slice(title, 0, TitleMax) \o Ellipsis ELSE title

\* A faulty variant: the cut keeps one character more than the test allows.
Title_CutsLate(text) ==
    LET title == IF FirstLine(text) = <<>> THEN Untitled ELSE FirstLine(text)
    IN IF Len(title) > TitleMax THEN slice(title, 0, TitleMax + 1) \o Ellipsis ELSE title

\* The title of a tab whose text is `text`.
Title(text) ==
    LET title == IF FirstLine(text) = <<>> THEN Untitled ELSE FirstLine(text)
    IN IF Len(title) > TitleMax THEN slice(title, 0, TitleMax) \o Ellipsis ELSE title

TabState_apply(this, action, ref) ==
    LET editorState == EditorState_apply(this.editorState, action.action)
    IN TabState_new(ref, Title(editorState.text), editorState)

\* A faulty variant: a fresh tab is given a title of its own.
TabState_empty_Named(ref) == TabState_new(ref, <<"N", "e", "w">>, EditorState_new(<<>>))

TabState_empty(ref) == TabState_new(ref, <<>>, EditorState_new(<<>>))

\* TabButton: {title || "Untitled"}, the title a tab's button shows.
Shown(title) == IF title = <<>> THEN Untitled ELSE title

\* A faulty variant: the title is derived again from the text instead of being read back.
TabState_fromJSON_Derived(json, ref) ==
    TabState_new(ref, Title(json.editorState.text), EditorState_fromJSON(json.editorState))

TabState_fromJSON(json, ref) ==
    IF json = undefined \/ json = null THEN Thrown
    ELSE LET editorState == EditorState_fromJSON(Prop(json, "editorState"))
         IN IF editorState = Thrown THEN Thrown
            ELSE TabState_new(ref, PropStr(json, "title"), editorState)

\* ------------------------------------------------------ TabbedEditorState

TabbedEditorState_new(leftTabs, currentTab, rightTabs) ==
    [leftTabs |-> leftTabs, currentTab |-> currentTab, rightTabs |-> rightTabs]

\* The tabs in left-to-right display order.
Display(s) == s.leftTabs \o <<s.currentTab>> \o s.rightTabs

Refs(s) == {Display(s)[i].ref : i \in {j \in 1..Len(Display(s)) : IsTab(Display(s)[j])}}

\* The identity of the next object created while `s` is live: one no live tab has.
NewRef(s) == CHOOSE r \in 1..(Len(Display(s)) + 1) : r \notin Refs(s) /\ \A q \in 1..(r - 1) : q \in Refs(s)

TabbedEditorState_toJSON(this) ==
    [leftTabs |-> [i \in 1..Len(this.leftTabs) |-> TabState_toJSON(this.leftTabs[i])],
     currentTab |-> TabState_toJSON(this.currentTab),
     rightTabs |-> [i \in 1..Len(this.rightTabs) |-> TabState_toJSON(this.rightTabs[i])]]

\* A faulty variant: the empty ring is built without a current tab.
TabbedEditorState_empty_NoTab(ref) == TabbedEditorState_new(<<>>, undefined, <<>>)

TabbedEditorState_empty(ref) == TabbedEditorState_new(<<>>, TabState_empty(ref), <<>>)

\* json.key.map(...) can be called: the property is there and is an array.
HasArray(json, key) == key \in DOMAIN json /\ json[key] # StringForArray

\* One of the calls of the map callback threw.
Threw(tabs) == \E i \in 1..Len(tabs) : tabs[i] = Thrown

\* Every tab of the persisted value becomes a new object.
TabbedEditorState_fromJSON(json) ==
    IF ~HasArray(json, "leftTabs") \/ ~HasArray(json, "rightTabs") THEN Thrown
    ELSE LET nl == Len(json.leftTabs)
             nr == Len(json.rightTabs)
             leftTabs == [i \in 1..nl |-> TabState_fromJSON(json.leftTabs[i], i)]
             rightTabs == [i \in 1..nr |-> TabState_fromJSON(json.rightTabs[i], nl + i)]
             currentTab == TabState_fromJSON(Prop(json, "currentTab"), nl + nr + 1)
         IN IF Threw(leftTabs) \/ Threw(rightTabs) \/ currentTab = Thrown THEN Thrown
            ELSE TabbedEditorState_new(leftTabs, currentTab, rightTabs)

\* A faulty variant: the tab left behind is pushed with its document emptied.
newTab_BlanksOld(this) ==
    TabbedEditorState_new(
        this.leftTabs \o <<TabState_new(this.currentTab.ref, this.currentTab.title, EditorState_new(<<>>))>>,
        TabState_empty(NewRef(this)),
        this.rightTabs)

TabbedEditorState_newTab(this) ==
    TabbedEditorState_new(this.leftTabs \o <<this.currentTab>>, TabState_empty(NewRef(this)), this.rightTabs)

\* A faulty variant: the first test is >= 0, so rightTabs[0] is read from an empty array.
closeCurrentTab_NoLengthTest(this) ==
    IF Len(this.rightTabs) >= 0 THEN
        TabbedEditorState_new(this.leftTabs, At(this.rightTabs, 0), sliceFrom(this.rightTabs, 1))
    ELSE TabbedEditorState_empty(NewRef(this))

\* A faulty variant: the left neighbour is preferred to the right one.
closeCurrentTab_LeftFirst(this) ==
    IF Len(this.leftTabs) > 0 THEN
        TabbedEditorState_new(slice(this.leftTabs, 0, -1), At(this.leftTabs, Len(this.leftTabs) - 1), this.rightTabs)
    ELSE IF Len(this.rightTabs) > 0 THEN
        TabbedEditorState_new(this.leftTabs, At(this.rightTabs, 0), sliceFrom(this.rightTabs, 1))
    ELSE TabbedEditorState_empty(NewRef(this))

\* A faulty variant: the last remaining tab is kept as it is.
closeCurrentTab_KeepsLast(this) ==
    IF Len(this.rightTabs) > 0 THEN
        TabbedEditorState_new(this.leftTabs, At(this.rightTabs, 0), sliceFrom(this.rightTabs, 1))
    ELSE IF Len(this.leftTabs) > 0 THEN
        TabbedEditorState_new(slice(this.leftTabs, 0, -1), At(this.leftTabs, Len(this.leftTabs) - 1), <<>>)
    ELSE this

TabbedEditorState_closeCurrentTab(this) ==
    IF Len(this.rightTabs) > 0 THEN
        TabbedEditorState_new(this.leftTabs, At(this.rightTabs, 0), sliceFrom(this.rightTabs, 1))
    ELSE IF Len(this.leftTabs) > 0 THEN
        TabbedEditorState_new(slice(this.leftTabs, 0, -1), At(this.leftTabs, Len(this.leftTabs) - 1), <<>>)
    ELSE TabbedEditorState_empty(NewRef(this))

\* A faulty variant: the left tabs are spliced without being reversed.
closeTab_NoReverse(this, direction) ==
    IF direction = 0 THEN TabbedEditorState_closeCurrentTab(this)
    ELSE IF direction > 0 THEN
        TabbedEditorState_new(this.leftTabs, this.currentTab, splice(this.rightTabs, direction - 1, 1))
    ELSE
        TabbedEditorState_new(splice(this.leftTabs, -1 * direction - 1, 1), this.currentTab, this.rightTabs)

\* A faulty variant: an offset past the end wraps around the list.
closeTab_Wraps(this, direction) ==
    IF direction = 0 THEN TabbedEditorState_closeCurrentTab(this)
    ELSE IF direction > 0 THEN
        TabbedEditorState_new(
            this.leftTabs,
            this.currentTab,
            IF this.rightTabs = <<>> THEN <<>>
            ELSE splice(this.rightTabs, (direction - 1) % Len(this.rightTabs), 1))
    ELSE
        TabbedEditorState_new(
            IF this.leftTabs = <<>> THEN <<>>
            ELSE reverse(splice(reverse(this.leftTabs), (-1 * direction - 1) % Len(this.leftTabs), 1)),
            this.currentTab,
            this.rightTabs)

TabbedEditorState_closeTab(this, direction) ==
    IF direction = 0 THEN TabbedEditorState_closeCurrentTab(this)
    ELSE IF direction > 0 THEN
        TabbedEditorState_new(this.leftTabs, this.currentTab, splice(this.rightTabs, direction - 1, 1))
    ELSE
        TabbedEditorState_new(
            reverse(splice(reverse(this.leftTabs), -1 * direction - 1, 1)),
            this.currentTab,
            this.rightTabs)

\* A faulty variant: the old current tab is pushed onto the far end of rightTabs.
changeTabLeft_PushesLast(this) ==
    IF Len(this.leftTabs) = 0 THEN this
    ELSE TabbedEditorState_new(
             slice(this.leftTabs, 0, -1),
             At(this.leftTabs, Len(this.leftTabs) - 1),
             this.rightTabs \o <<this.currentTab>>)

\* A faulty variant: the tab stepped onto gets the title derived from its text.
changeTabLeft_Retitles(this) ==
    IF Len(this.leftTabs) = 0 THEN this
    ELSE TabbedEditorState_new(
             slice(this.leftTabs, 0, -1),
             [At(this.leftTabs, Len(this.leftTabs) - 1) EXCEPT
                 !.title = Title(At(this.leftTabs, Len(this.leftTabs) - 1).editorState.text)],
             <<this.currentTab>> \o this.rightTabs)

TabbedEditorState_changeTabLeft(this) ==
    IF Len(this.leftTabs) = 0 THEN this
    ELSE TabbedEditorState_new(
             slice(this.leftTabs, 0, -1),
             At(this.leftTabs, Len(this.leftTabs) - 1),
             <<this.currentTab>> \o this.rightTabs)

\* A faulty variant: a step right past the last tab wraps to the first one.
changeTabRight_Wraps(this) ==
    IF Len(this.rightTabs) = 0 THEN
        IF Len(this.leftTabs) = 0 THEN this
        ELSE TabbedEditorState_new(<<>>, At(this.leftTabs, 0), sliceFrom(this.leftTabs, 1) \o <<this.currentTab>>)
    ELSE TabbedEditorState_new(
             this.leftTabs \o <<this.currentTab>>,
             At(this.rightTabs, 0),
             sliceFrom(this.rightTabs, 1))

\* A faulty variant: the old current tab is pushed onto the front of leftTabs.
changeTabRight_Prepends(this) ==
    IF Len(this.rightTabs) = 0 THEN this
    ELSE TabbedEditorState_new(
             <<this.currentTab>> \o this.leftTabs,
             At(this.rightTabs, 0),
             sliceFrom(this.rightTabs, 1))

TabbedEditorState_changeTabRight(this) ==
    IF Len(this.rightTabs) = 0 THEN this
    ELSE TabbedEditorState_new(
             this.leftTabs \o <<this.currentTab>>,
             At(this.rightTabs, 0),
             sliceFrom(this.rightTabs, 1))

\* A faulty variant: the loop test is >=, so the loop runs once more.
RECURSIVE WhileRight_OnceMore(_, _)
WhileRight_OnceMore(s, direction) ==
    IF direction >= 0 THEN WhileRight_OnceMore(TabbedEditorState_changeTabRight(s), direction - 1)
    ELSE s

\* while (direction > 0) { state = state.changeTabRight(); direction -= 1 }
RECURSIVE WhileRight(_, _)
WhileRight(s, direction) ==
    IF direction > 0 THEN WhileRight(TabbedEditorState_changeTabRight(s), direction - 1)
    ELSE s

\* A faulty variant: the loop counts direction up by two.
RECURSIVE WhileLeft_ByTwo(_, _)
WhileLeft_ByTwo(s, direction) ==
    IF direction < 0 THEN WhileLeft_ByTwo(TabbedEditorState_changeTabLeft(s), direction + 2)
    ELSE s

\* while (direction < 0) { state = state.changeTabLeft(); direction += 1 }
RECURSIVE WhileLeft(_, _)
WhileLeft(s, direction) ==
    IF direction < 0 THEN WhileLeft(TabbedEditorState_changeTabLeft(s), direction + 1)
    ELSE s

TabbedEditorState_changeTab(this, direction) ==
    IF direction > 0 THEN WhileRight(this, direction)
    ELSE IF direction < 0 THEN WhileLeft(this, direction)
    ELSE this

\* A faulty variant: an edit also drops the tabs to the right.
apply_EditDropsRight(this, action) ==
    CASE action.type = "change-tab" -> TabbedEditorState_changeTab(this, action.direction)
      [] action.type = "close-tab" -> TabbedEditorState_closeTab(this, action.direction)
      [] action.type = "new-tab" -> TabbedEditorState_newTab(this)
      [] action.type = "edit-tab" ->
            TabbedEditorState_new(this.leftTabs, TabState_apply(this.currentTab, action, NewRef(this)), <<>>)
      [] OTHER -> undefined

TabbedEditorState_apply(this, action) ==
    CASE action.type = "change-tab" -> TabbedEditorState_changeTab(this, action.direction)
      [] action.type = "close-tab" -> TabbedEditorState_closeTab(this, action.direction)
      [] action.type = "new-tab" -> TabbedEditorState_newTab(this)
      [] action.type = "edit-tab" ->
            TabbedEditorState_new(this.leftTabs, TabState_apply(this.currentTab, action, NewRef(this)), this.rightTabs)
      [] OTHER -> undefined

\* A faulty variant: the constant names the receiver's own array, so reverse()
\* and splice() change the receiver.
closeTab_this_NoCopy(this, direction) ==
    IF direction = 0 THEN this
    ELSE IF direction > 0 THEN
        LET arrays0 == [own |-> this.rightTabs]
            arrays1 == [arrays0 EXCEPT !.own = splice(@, direction - 1, 1)]
        IN [this EXCEPT !.rightTabs = arrays1.own]
    ELSE
        LET arrays0 == [own |-> this.leftTabs]
            arrays1 == [arrays0 EXCEPT !.own = reverse(@)]
            arrays2 == [arrays1 EXCEPT !.own = splice(@, -1 * direction - 1, 1)]
            arrays3 == [arrays2 EXCEPT !.own = reverse(@)]
        IN [this EXCEPT !.leftTabs = arrays3.own]

\* The receiver once closeTab has returned.  reverse() and splice() change the
\* array they are called on: `own` is the receiver's array, `copy` the new
\* array [...this.rightTabs] or [...this.leftTabs] the constant names.
TabbedEditorState_closeTab_this(this, direction) ==
    IF direction = 0 THEN this
    ELSE IF direction > 0 THEN
        LET arrays0 == [own |-> this.rightTabs, copy |-> this.rightTabs]
            arrays1 == [arrays0 EXCEPT !.copy = splice(@, direction - 1, 1)]
        IN [this EXCEPT !.rightTabs = arrays1.own]
    ELSE
        LET arrays0 == [own |-> this.leftTabs, copy |-> this.leftTabs]
            arrays1 == [arrays0 EXCEPT !.copy = reverse(@)]
            arrays2 == [arrays1 EXCEPT !.copy = splice(@, -1 * direction - 1, 1)]
            arrays3 == [arrays2 EXCEPT !.copy = reverse(@)]
        IN [this EXCEPT !.leftTabs = arrays3.own]

\* The receiver once apply has returned: closeTab is the one method that
\* changes an array in place; the others build new arrays and new objects.
TabbedEditorState_apply_this(this, action) ==
    IF action.type = "close-tab" THEN TabbedEditorState_closeTab_this(this, action.direction)
    ELSE this

\* --------------------------------- TabbedEditorsMachine (records, functions)

\* The object literal { title, editorState }; ref is the new object's identity.
TabLiteral(ref, title, editorState) == [ref |-> ref, title |-> title, editorState |-> editorState]

EditorStateMachine_init(json) == IF json # undefined THEN EditorState_fromJSON(json) ELSE EditorState_new(<<>>)

EditorStateMachine_update(state, action) == EditorState_apply(state, action)

EditorStateMachine_save(state) == EditorState_toJSON(state)

\* { ...tabState, editorState: EditorState.fromJSON(tabState.editorState) }
TabFromJSON(tabState, ref) ==
    IF tabState = undefined \/ tabState = null THEN Thrown
    ELSE LET editorState == EditorState_fromJSON(Prop(tabState, "editorState"))
         IN IF editorState = Thrown THEN Thrown
            ELSE TabLiteral(ref, PropStr(tabState, "title"), editorState)

TabbedEditorsMachine_init(json) ==
    IF json = null \/ json = undefined THEN
        [leftTabs |-> <<>>,
         rightTabs |-> <<>>,
         currentTab |-> TabLiteral(1, <<>>, EditorStateMachine_init(undefined))]
    ELSE IF ~HasArray(json, "leftTabs") \/ ~HasArray(json, "rightTabs") THEN Thrown
    ELSE
        LET nl == Len(json.leftTabs)
            nr == Len(json.rightTabs)
            leftTabs == [i \in 1..nl |-> TabFromJSON(json.leftTabs[i], i)]
            rightTabs == [i \in 1..nr |-> TabFromJSON(json.rightTabs[i], nl + i)]
            currentTab == TabFromJSON(Prop(json, "currentTab"), nl + nr + 1)
        IN IF Threw(leftTabs) \/ Threw(rightTabs) \/ currentTab = Thrown THEN Thrown
           ELSE [leftTabs |-> leftTabs, rightTabs |-> rightTabs, currentTab |-> currentTab]

\* A faulty variant: the title saved is the one derived from the text.
TabToJSON_Derived(s) == [title |-> Title(s.editorState.text), editorState |-> EditorState_toJSON(s.editorState)]

\* { title: s.title, editorState: s.editorState.toJSON() }
TabToJSON(s) == [title |-> s.title, editorState |-> EditorState_toJSON(s.editorState)]

TabbedEditorsMachine_save(state) ==
    [leftTabs |-> [i \in 1..Len(state.leftTabs) |-> TabToJSON(state.leftTabs[i])],
     currentTab |-> TabToJSON(state.currentTab),
     rightTabs |-> [i \in 1..Len(state.rightTabs) |-> TabToJSON(state.rightTabs[i])]]

\* A faulty variant: the tabs to the right are lost when a tab is opened.
newTab_DropsRight(state) ==
    [leftTabs |-> state.leftTabs \o <<state.currentTab>>,
     currentTab |-> TabLiteral(NewRef(state), <<>>, EditorStateMachine_init(undefined)),
     rightTabs |-> <<>>]

newTab(state) ==
    [leftTabs |-> state.leftTabs \o <<state.currentTab>>,
     currentTab |-> TabLiteral(NewRef(state), <<>>, EditorStateMachine_init(undefined)),
     rightTabs |-> state.rightTabs]

\* A faulty variant: closing with a tab to the right loses the tabs to the left.
closeCurrentTab_DropsLeft(state) ==
    IF Len(state.rightTabs) > 0 THEN
        [leftTabs |-> <<>>,
         currentTab |-> At(state.rightTabs, 0),
         rightTabs |-> sliceFrom(state.rightTabs, 1)]
    ELSE IF Len(state.leftTabs) > 0 THEN
        [leftTabs |-> slice(state.leftTabs, 0, -1),
         currentTab |-> At(state.leftTabs, Len(state.leftTabs) - 1),
         rightTabs |-> <<>>]
    ELSE
        [leftTabs |-> <<>>,
         rightTabs |-> <<>>,
         currentTab |-> TabLiteral(NewRef(state), <<>>, EditorStateMachine_init(undefined))]

\* A faulty variant: the tab to the left takes the closed tab's place first.
closeCurrentTab_PrefersLeft(state) ==
    IF Len(state.leftTabs) > 0 THEN
        [leftTabs |-> slice(state.leftTabs, 0, -1),
         currentTab |-> At(state.leftTabs, Len(state.leftTabs) - 1),
         rightTabs |-> state.rightTabs]
    ELSE IF Len(state.rightTabs) > 0 THEN
        [leftTabs |-> state.leftTabs,
         currentTab |-> At(state.rightTabs, 0),
         rightTabs |-> sliceFrom(state.rightTabs, 1)]
    ELSE
        [leftTabs |-> <<>>,
         rightTabs |-> <<>>,
         currentTab |-> TabLiteral(NewRef(state), <<>>, EditorStateMachine_init(undefined))]

closeCurrentTab(state) ==
    IF Len(state.rightTabs) > 0 THEN
        [leftTabs |-> state.leftTabs,
         currentTab |-> At(state.rightTabs, 0),
         rightTabs |-> sliceFrom(state.rightTabs, 1)]
    ELSE IF Len(state.leftTabs) > 0 THEN
        [leftTabs |-> slice(state.leftTabs, 0, -1),
         currentTab |-> At(state.leftTabs, Len(state.leftTabs) - 1),
         rightTabs |-> <<>>]
    ELSE
        [leftTabs |-> <<>>,
         rightTabs |-> <<>>,
         currentTab |-> TabLiteral(NewRef(state), <<>>, EditorStateMachine_init(undefined))]

\* A faulty variant: splice(direction, 1) on the right, one tab too far.
closeTab_OffByOne(state, direction) ==
    IF direction = 0 THEN closeCurrentTab(state)
    ELSE IF direction > 0 THEN
        [state EXCEPT !.rightTabs = splice(state.rightTabs, direction, 1)]
    ELSE
        [state EXCEPT !.leftTabs = reverse(splice(reverse(state.leftTabs), -1 * direction - 1, 1))]

\* A faulty variant: splice(-1 * direction, 1) on the left, one tab too far.
closeTab_LeftOffByOne(state, direction) ==
    IF direction = 0 THEN closeCurrentTab(state)
    ELSE IF direction > 0 THEN
        [state EXCEPT !.rightTabs = splice(state.rightTabs, direction - 1, 1)]
    ELSE
        [state EXCEPT !.leftTabs = reverse(splice(reverse(state.leftTabs), -1 * direction, 1))]

closeTab(state, direction) ==
    IF direction = 0 THEN closeCurrentTab(state)
    ELSE IF direction > 0 THEN
        [state EXCEPT !.rightTabs = splice(state.rightTabs, direction - 1, 1)]
    ELSE
        [state EXCEPT !.leftTabs = reverse(splice(reverse(state.leftTabs), -1 * direction - 1, 1))]

\* A faulty variant: the old current tab is pushed onto the end of rightTabs.
changeTabLeft_PushesBack(state) ==
    IF Len(state.leftTabs) = 0 THEN state
    ELSE [leftTabs |-> slice(state.leftTabs, 0, -1),
          currentTab |-> At(state.leftTabs, Len(state.leftTabs) - 1),
          rightTabs |-> state.rightTabs \o <<state.currentTab>>]

changeTabLeft(state) ==
    IF Len(state.leftTabs) = 0 THEN state
    ELSE [leftTabs |-> slice(state.leftTabs, 0, -1),
          currentTab |-> At(state.leftTabs, Len(state.leftTabs) - 1),
          rightTabs |-> <<state.currentTab>> \o state.rightTabs]

\* A faulty variant: the old current tab is not pushed onto leftTabs.
changeTabRight_DropsCurrent(state) ==
    IF Len(state.rightTabs) = 0 THEN state
    ELSE [leftTabs |-> state.leftTabs,
          currentTab |-> At(state.rightTabs, 0),
          rightTabs |-> sliceFrom(state.rightTabs, 1)]

changeTabRight(state) ==
    IF Len(state.rightTabs) = 0 THEN state
    ELSE [leftTabs |-> state.leftTabs \o <<state.currentTab>>,
          currentTab |-> At(state.rightTabs, 0),
          rightTabs |-> sliceFrom(state.rightTabs, 1)]

\* while (direction > 0) { state = changeTabRight(state); direction -= 1 }
RECURSIVE changeTab_whileRight(_, _)
changeTab_whileRight(state, direction) ==
    IF direction > 0 THEN changeTab_whileRight(changeTabRight(state), direction - 1)
    ELSE state

\* while (direction < 0) { state = changeTabLeft(state); direction += 1 }
RECURSIVE changeTab_whileLeft(_, _)
changeTab_whileLeft(state, direction) ==
    IF direction < 0 THEN changeTab_whileLeft(changeTabLeft(state), direction + 1)
    ELSE state

changeTab(state, direction) ==
    IF direction > 0 THEN changeTab_whileRight(state, direction)
    ELSE IF direction < 0 THEN changeTab_whileLeft(state, direction)
    ELSE state

TabbedEditorsMachine_update(state, action) ==
    CASE action.type = "change-tab" -> changeTab(state, action.direction)
      [] action.type = "close-tab" -> closeTab(state, action.direction)
      [] action.type = "new-tab" -> newTab(state)
      [] action.type = "edit-tab" ->
            LET editorState == EditorStateMachine_update(state.currentTab.editorState, action.action)
            IN [state EXCEPT !.currentTab = TabLiteral(NewRef(state), Title(editorState.text), editorState)]
      [] OTHER -> undefined

\* The argument once closeTab has returned: splice() and reverse() are called
\* on the new array [...state.rightTabs] or [...state.leftTabs].
closeTab_state(state, direction) ==
    IF direction = 0 THEN state
    ELSE IF direction > 0 THEN
        LET arrays0 == [own |-> state.rightTabs, copy |-> state.rightTabs]
            arrays1 == [arrays0 EXCEPT !.copy = splice(@, direction - 1, 1)]
        IN [state EXCEPT !.rightTabs = arrays1.own]
    ELSE
        LET arrays0 == [own |-> state.leftTabs, copy |-> state.leftTabs]
            arrays1 == [arrays0 EXCEPT !.copy = reverse(@)]
            arrays2 == [arrays1 EXCEPT !.copy = splice(@, -1 * direction - 1, 1)]
            arrays3 == [arrays2 EXCEPT !.copy = reverse(@)]
        IN [state EXCEPT !.leftTabs = arrays3.own]

\* The argument once update has returned.
TabbedEditorsMachine_update_state(state, action) ==
    IF action.type = "close-tab" THEN closeTab_state(state, action.direction)
    ELSE state

\* ----------------------------------------------------------------- Tabbar

\* <TabButton title direction />; tab is the tab the button was rendered for.
TabButton(tab, direction) == [title |-> tab.title, direction |-> direction, tab |-> tab]

\* A faulty variant: the left buttons count from the far end, -1 for index 0.
Tabbar_Mirrored(s) ==
    [i \in 1..Len(s.leftTabs) |-> TabButton(s.leftTabs[i], -(i - 1) - 1)]
    \o <<TabButton(s.currentTab, 0)>>
    \o [i \in 1..Len(s.rightTabs) |-> TabButton(s.rightTabs[i], (i - 1) + 1)]

\* The buttons Tabbar renders, left to right: direction i - list.length for
\* the left tab at index i, 0 for the current tab, i + 1 for the right tab at
\* index i (indices from 0).
Tabbar(s) ==
    [i \in 1..Len(s.leftTabs) |-> TabButton(s.leftTabs[i], (i - 1) - Len(s.leftTabs))]
    \o <<TabButton(s.currentTab, 0)>>
    \o [i \in 1..Len(s.rightTabs) |-> TabButton(s.rightTabs[i], (i - 1) + 1)]

\* -------------------------------------------------------------- the state

\* Two applications are run side by side on the same actions: the one built on
\* the class TabbedEditorState and the one built on TabbedEditorsMachine.
VARIABLES
    state,    \* the TabbedEditorState snapshot useReducer holds
    prev,     \* the snapshot the reducer was last called with, as it is after the call
    storage,  \* the parsed value of that application's localStorage item, null when never written
    mstate,   \* the TabbedEditorsMachine snapshot useReducer holds
    mprev,    \* the snapshot TabbedEditorsMachine.update was last called with, after the call
    mstorage, \* the parsed value of that application's localStorage item
    last      \* the action last dispatched; "mount" after App started, "none" once rendered

vars == <<state, prev, storage, mstate, mprev, mstorage, last>>

\* References mean nothing beyond equality: the live tabs are renamed 1..n in
\* display order, so that heaps equal up to renaming are one state.
Renamed(s) ==
    TabbedEditorState_new(
        [i \in 1..Len(s.leftTabs) |-> [s.leftTabs[i] EXCEPT !.ref = i]],
        [s.currentTab EXCEPT !.ref = Len(s.leftTabs) + 1],
        [i \in 1..Len(s.rightTabs) |-> [s.rightTabs[i] EXCEPT !.ref = Len(s.leftTabs) + 1 + i]])

\* App(): the initial snapshot is rebuilt from the persisted value, if there is one.
App_initialState(initialStateJson) ==
    IF initialStateJson # null THEN TabbedEditorState_fromJSON(initialStateJson)
    ELSE TabbedEditorState_empty(1)

\* The first start: nothing is persisted.
Init ==
    /\ storage = null
    /\ state = App_initialState(storage)
    /\ prev = state
    /\ mstorage = null
    /\ mstate = TabbedEditorsMachine_init(mstorage)
    /\ mprev = mstate
    /\ last = [type |-> "mount"]

\* dispatch(action): the reducer replaces the snapshot by state.apply(action),
\* respectively by TabbedEditorsMachine.update(state, action).  Actions are
\* applied one at a time: the next is dispatched once the render of the
\* previous one is over.
Dispatch(action) ==
    /\ last.type = "none"
    /\ last' = action
    /\ prev' = TabbedEditorState_apply_this(state, action)
    /\ state' = TabbedEditorState_apply(state, action)
    /\ mprev' = TabbedEditorsMachine_update_state(mstate, action)
    /\ mstate' = TabbedEditorsMachine_update(mstate, action)
    /\ UNCHANGED <<storage, mstorage>>

EditTab == \E text \in Texts : Dispatch([type |-> "edit-tab", action |-> [type |-> "change", text |-> text]])

ChangeTab == \E direction \in Directions : Dispatch([type |-> "change-tab", direction |-> direction])

NewTab == Dispatch([type |-> "new-tab"]) /\ Len(Display(state)) < MaxTabs

CloseTab == \E direction \in Directions : Dispatch([type |-> "close-tab", direction |-> direction])

\* JSON.parse(JSON.stringify(json)) of a serialized snapshot: a property whose
\* value is undefined is left out, every other value is read back as written.
JSON_document(json) == IF json.text = UndefinedStr THEN EmptyObject ELSE json

JSON_tab(json) ==
    IF json.title = UndefinedStr THEN [editorState |-> JSON_document(json.editorState)]
    ELSE [title |-> json.title, editorState |-> JSON_document(json.editorState)]

JSON_roundTrip(json) ==
    [leftTabs |-> [i \in 1..Len(json.leftTabs) |-> JSON_tab(json.leftTabs[i])],
     currentTab |-> JSON_tab(json.currentTab),
     rightTabs |-> [i \in 1..Len(json.rightTabs) |-> JSON_tab(json.rightTabs[i])]]

\* The snapshot is a ring: neither undefined nor the outcome of a throw.
IsRing(s) == DOMAIN s = {"leftTabs", "currentTab", "rightTabs"}

\* A faulty variant: the effect does not write the item.
Render_NoPersist ==
    /\ last.type # "none"
    /\ IsRing(state)
    /\ IsRing(mstate)
    /\ state' = Renamed(state)
    /\ prev' = state'
    /\ mstate' = Renamed(mstate)
    /\ mprev' = mstate'
    /\ last' = [type |-> "none"]
    /\ UNCHANGED <<storage, mstorage>>

\* App renders the new snapshot and its effect persists it; the superseded
\* snapshot is discarded.  A start that threw renders nothing.
Render ==
    /\ last.type # "none"
    /\ IsRing(state)
    /\ IsRing(mstate)
    /\ storage' = JSON_roundTrip(TabbedEditorState_toJSON(state))
    /\ state' = Renamed(state)
    /\ prev' = state'
    /\ mstorage' = JSON_roundTrip(TabbedEditorsMachine_save(mstate))
    /\ mstate' = Renamed(mstate)
    /\ mprev' = mstate'
    /\ last' = [type |-> "none"]

\* The page is reloaded: App starts again from what was persisted.
Reload ==
    /\ last.type = "none"
    /\ last' = [type |-> "mount"]
    /\ prev' = state
    /\ state' = App_initialState(storage)
    /\ mprev' = mstate
    /\ mstate' = TabbedEditorsMachine_init(mstorage)
    /\ UNCHANGED <<storage, mstorage>>

Next == EditTab \/ ChangeTab \/ NewTab \/ CloseTab \/ Render \/ Reload

Spec == Init /\ [][Next]_vars

\* ----------------------------------------- an action of an unknown type

\* A caller dispatches an action whose type is none of the four the switch names.
UnknownAction == Dispatch([type |-> "rename-tab"])

\* App renders the snapshot the reducer returned: reading state.currentTab of
\* undefined throws, and nothing is persisted.
RenderUndefined ==
    /\ last.type # "none"
    /\ state = undefined
    /\ state' = Thrown
    /\ mstate' = Thrown
    /\ UNCHANGED <<prev, storage, mprev, mstorage, last>>

NextUnknown == Next \/ UnknownAction \/ RenderUndefined

SpecUnknown == Init /\ [][NextUnknown]_vars

\* ------------------------------------------- starting from a persisted value

Notes == <<"N", "o", "t", "e", "s">>

\* Well-formed persisted tabs; a stored title need not be the one derived from the text.
PersistedTabs ==
    { [title |-> <<>>, editorState |-> [text |-> <<>>]],
      [title |-> <<"H", "i">>, editorState |-> [text |-> <<"H", "i", "\n", "r", "e", "s", "t">>]],
      [title |-> Notes, editorState |-> [text |-> <<>>]] }

PersistedLists == {<<>>} \cup {<<t>> : t \in PersistedTabs}

\* Well-formed values of the localStorage item.
Persisted ==
    { [leftTabs |-> l, currentTab |-> c, rightTabs |-> r] :
        l \in PersistedLists, c \in PersistedTabs, r \in PersistedLists }

\* App starts with nothing persisted or with any well-formed persisted value.
InitLoad ==
    /\ storage \in Persisted \cup {null}
    /\ state = App_initialState(storage)
    /\ prev = state
    /\ mstorage = storage
    /\ mstate = TabbedEditorsMachine_init(mstorage)
    /\ mprev = mstate
    /\ last = [type |-> "mount"]

SpecLoad == InitLoad /\ [][Next]_vars

\* ------------------------------------- starting from a malformed stored value

HiRest == <<"H", "i", "\n", "r", "e", "s", "t">>

GoodTab == [title |-> <<"H", "i">>, editorState |-> [text |-> HiRest]]

\* Tab entries of a stored value that are not of the persisted shape.
MalformedTabs ==
    { [title |-> <<"H", "i">>, editorState |-> EmptyObject],
      [title |-> <<"H", "i">>, editorState |-> [text |-> FiveStr]],
      [editorState |-> [text |-> HiRest]],
      [title |-> <<"H", "i">>],
      null }

GoodLists == {<<>>, <<GoodTab>>}

\* Stored values that are not of the persisted shape: one malformed tab entry
\* among well-formed ones, a missing property, or a string for an array.
MalformedRings ==
    { [leftTabs |-> <<t>>, currentTab |-> GoodTab, rightTabs |-> r] : t \in MalformedTabs, r \in GoodLists }
    \cup { [leftTabs |-> l, currentTab |-> t, rightTabs |-> r] : l \in GoodLists, t \in MalformedTabs, r \in GoodLists }
    \cup { [leftTabs |-> l, currentTab |-> GoodTab, rightTabs |-> <<t>>] : l \in GoodLists, t \in MalformedTabs }
    \cup { [currentTab |-> GoodTab, rightTabs |-> <<>>],
           [leftTabs |-> <<>>, currentTab |-> GoodTab],
           [leftTabs |-> <<GoodTab>>, rightTabs |-> <<>>],
           [leftTabs |-> StringForArray, currentTab |-> GoodTab, rightTabs |-> <<>>],
           [leftTabs |-> <<>>, currentTab |-> GoodTab, rightTabs |-> StringForArray] }

\* App starts with a stored value that some other program wrote.
InitMalformed ==
    /\ storage \in MalformedRings
    /\ state = App_initialState(storage)
    /\ prev = state
    /\ mstorage = storage
    /\ mstate = TabbedEditorsMachine_init(mstorage)
    /\ mprev = mstate
    /\ last = [type |-> "mount"]

SpecMalformed == InitMalformed /\ [][Next]_vars

\* ------------------------------------------- the loops of changeTab, by step

\* An edited tab: the i-th tab of a ring holds text when i is odd.
TabAt(i) ==
    LET text == IF i % 2 = 1 THEN HiRest ELSE <<>>
    IN TabState_new(i, Title(text), EditorState_new(text))

\* The rings of n tabs, one for each place of the current tab.
RingsOf(n) ==
    { TabbedEditorState_new([i \in 1..nl |-> TabAt(i)], TabAt(nl + 1), [i \in 1..(n - nl - 1) |-> TabAt(nl + 1 + i)]) :
        nl \in 0..(n - 1) }

\* changeTab(direction) is entered on some ring: `state` is the loop's local
\* variable state, `last.direction` the parameter direction as the loop
\* counts it towards 0, `last.called` the direction changeTab was called with.
InitLoop ==
    /\ \E n \in 1..MaxTabs : state \in RingsOf(n)
    /\ prev = state
    /\ mstate = state
    /\ mprev = state
    /\ storage = null
    /\ mstorage = null
    /\ \E direction \in Directions :
           last = [type |-> "change-tab", direction |-> direction, called |-> direction]

\* One turn of while (direction > 0): state = state.changeTabRight(); direction -= 1
LoopRight ==
    /\ last.direction > 0
    /\ state' = TabbedEditorState_changeTabRight(state)
    /\ mstate' = changeTabRight(mstate)
    /\ last' = [last EXCEPT !.direction = @ - 1]
    /\ UNCHANGED <<prev, mprev, storage, mstorage>>

\* One turn of while (direction < 0): state = state.changeTabLeft(); direction += 1
LoopLeft ==
    /\ last.direction < 0
    /\ state' = TabbedEditorState_changeTabLeft(state)
    /\ mstate' = changeTabLeft(mstate)
    /\ last' = [last EXCEPT !.direction = @ + 1]
    /\ UNCHANGED <<prev, mprev, storage, mstorage>>

NextLoop == LoopRight \/ LoopLeft

\* A loop that can take a turn takes it: nothing else runs meanwhile.
SpecLoop == InitLoop /\ [][NextLoop]_vars /\ WF_vars(NextLoop)

\* ------------------------------------------------------ effects do run

\* The user keeps to a few tabs and to the tabs next to the current one.
FewTabs == 2

StepTab == \E direction \in -1..1 : Dispatch([type |-> "change-tab", direction |-> direction])

NewTabFew == Dispatch([type |-> "new-tab"]) /\ Len(Display(state)) < FewTabs

CloseNear == \E direction \in -1..1 : Dispatch([type |-> "close-tab", direction |-> direction])

NextFew == EditTab \/ StepTab \/ NewTabFew \/ CloseNear \/ Render \/ Reload

\* React runs the render and the effect of every snapshot the reducer returned.
SpecLoadFair == InitLoad /\ [][NextFew]_vars /\ WF_vars(Render)

\* ------------------------------------------------ one tab, many kinds of text

TenChars == <<"1", "2", "3", "4", "5", "6", "7", "8", "9", "0">>

\* Texts whose first line is empty, short, exactly as long as a title may be,
\* or longer, with and without further lines.
TitleTexts ==
    Texts \cup
    { <<"\n", "b", "o", "d", "y">>,
      <<"a", "\n", "b", "\n", "c">>,
      SubSeq(TenChars, 1, 9),
      TenChars,
      TenChars \o <<"1">>,
      TenChars \o <<"\n", "x">>,
      TenChars \o <<"1", "\n", "x">> }

EditTitle == \E text \in TitleTexts : Dispatch([type |-> "edit-tab", action |-> [type |-> "change", text |-> text]])

NextTitle == EditTitle \/ Render

\* The user only types into the one tab the application starts with.
SpecTitle == Init /\ [][NextTitle]_vars

\* ------------------------------------------- few tabs, many kinds of text

\* The texts of TitleTexts, a line of twenty characters, and lines that end
\* in a carriage return and a newline.
LongTexts ==
    TitleTexts \cup
    { TenChars \o TenChars,
      <<"a", "\r", "\n", "b">>,
      TenChars \o <<"\r", "\n", "x">> }

EditLong == \E text \in LongTexts : Dispatch([type |-> "edit-tab", action |-> [type |-> "change", text |-> text]])

NextEdited == EditLong \/ StepTab \/ NewTabFew \/ CloseNear \/ Render \/ Reload

\* From the first start, the user types texts of many kinds into few tabs.
SpecEdited == Init /\ [][NextEdited]_vars

\* ------------------------------------------------------------------ claims

\* What two tabs share when they are structurally equal: title and text.
Struct(t) == [title |-> t.title, text |-> t.editorState.text]

StructAll(tabs) == [i \in 1..Len(tabs) |-> Struct(tabs[i])]

StructRing(s) ==
    [leftTabs |-> StructAll(s.leftTabs), currentTab |-> Struct(s.currentTab), rightTabs |-> StructAll(s.rightTabs)]

\* The initial empty ring: no left or right tabs, one fresh empty current tab.
EmptyRing == [leftTabs |-> <<>>, currentTab |-> [title |-> <<>>, text |-> <<>>], rightTabs |-> <<>>]

\* seq without its i-th element (1-based).
Without(seq, i) == SubSeq(seq, 1, i - 1) \o SubSeq(seq, i + 1, Len(seq))

AllTabs(tabs) == \A i \in 1..Len(tabs) : IsTab(tabs[i])

\* The claims are stated of a snapshot s the reducer returned when called with
\* the snapshot p and the action `last`, and checked of both applications.

\* C1: in every state reachable from the empty ring or from a well-formed
\* persisted ring, by any actions with any directions, currentTab is a tab
\* (never missing), the ring holds at least one tab, and exactly one tab of
\* the ring is the current one.
C1_On(s) ==
    /\ IsTab(s.currentTab)
    /\ AllTabs(s.leftTabs) /\ AllTabs(s.rightTabs)
    /\ Len(s.leftTabs) + 1 + Len(s.rightTabs) >= 1
    /\ Cardinality({i \in 1..Len(Display(s)) : Display(s)[i].ref = s.currentTab.ref}) = 1

C1_ExactlyOneCurrentTab == C1_On(state) /\ C1_On(mstate)

\* A ring loaded from storage was closed down to its last tab, whose stored
\* title is not the derived one.
C1_Witness ==
    /\ last.type = "close-tab"
    /\ Len(Display(prev)) = 2
    /\ Len(Display(state)) = 1
    /\ state.currentTab.title = Notes
    /\ mstate.currentTab.title = Notes

\* C2: for every reachable state s, deserialize(serialize(s)) has the same
\* leftTabs, currentTab and rightTabs as s, tab by tab the same title and
\* text, also when s holds fresh never-edited tabs.
C2_RoundTrip ==
    /\ StructRing(TabbedEditorState_fromJSON(TabbedEditorState_toJSON(state))) = StructRing(state)
    /\ StructRing(TabbedEditorsMachine_init(TabbedEditorsMachine_save(mstate))) = StructRing(mstate)

\* The ring was rebuilt from what was persisted, and holds a fresh
\* never-edited tab beside one edited to the empty text.
C2_Witness ==
    /\ last.type = "mount"
    /\ storage # null
    /\ mstorage # null
    /\ \E i, j \in 1..Len(Display(state)) :
          /\ Struct(Display(state)[i]) = [title |-> <<>>, text |-> <<>>]
          /\ Struct(Display(state)[j]) = [title |-> Untitled, text |-> <<>>]

\* C3: change-tab, with any direction, leaves the number of tabs unchanged.
C3_On(p, s) == last.type = "change-tab" => Len(Display(s)) = Len(Display(p))

C3_ChangeTabKeepsLength == C3_On(prev, state) /\ C3_On(mprev, mstate)

C3_Witness ==
    /\ last.type = "change-tab"
    /\ last.direction = -2
    /\ Len(prev.leftTabs) = 2
    /\ Len(prev.rightTabs) = 1
    /\ state.currentTab = prev.leftTabs[1]

\* How far change-tab with direction d moves the pointer from snapshot s.
Clamped(s, d) ==
    IF d > 0 THEN Min(d, Len(s.rightTabs))
    ELSE IF d < 0 THEN -Min(-d, Len(s.leftTabs))
    ELSE 0

\* C4: change-tab d moves the pointer exactly min(d, |rightTabs|) to the
\* right for d > 0 and min(|d|, |leftTabs|) to the left for d < 0; it does
\* not wrap and always yields a tab; with rightTabs empty and d > 0,
\* currentTab and leftTabs are unchanged.
C4_On(p, s) ==
    last.type = "change-tab" =>
        LET k == Clamped(p, last.direction)
        IN /\ IsTab(s.currentTab)
           /\ Len(s.leftTabs) = Len(p.leftTabs) + k
           /\ s.currentTab = Display(p)[Len(p.leftTabs) + 1 + k]
           /\ (last.direction > 0 /\ p.rightTabs = <<>>) =>
                  (s.currentTab = p.currentTab /\ s.leftTabs = p.leftTabs)

C4_ChangeTabClamps == C4_On(prev, state) /\ C4_On(mprev, mstate)

\* The direction asked for more steps than there were tabs on that side.
C4_Witness ==
    /\ last.type = "change-tab"
    /\ last.direction = 3
    /\ Len(prev.leftTabs) = 2
    /\ Len(prev.rightTabs) = 1
    /\ state.rightTabs = <<>>

\* C5: close-tab 0: with rightTabs non-empty the first right tab becomes
\* current and leaves rightTabs, leftTabs unchanged; else with leftTabs
\* non-empty the last left tab becomes current and leaves leftTabs,
\* rightTabs stays empty; else the result is the initial empty ring.  The
\* old current tab is nowhere in the result.
C5_On(p, s) ==
    (last.type = "close-tab" /\ last.direction = 0) =>
        /\ IF Len(p.rightTabs) > 0 THEN
               /\ s.currentTab = p.rightTabs[1]
               /\ s.rightTabs = Tail(p.rightTabs)
               /\ s.leftTabs = p.leftTabs
           ELSE IF Len(p.leftTabs) > 0 THEN
               /\ s.currentTab = p.leftTabs[Len(p.leftTabs)]
               /\ s.leftTabs = SubSeq(p.leftTabs, 1, Len(p.leftTabs) - 1)
               /\ s.rightTabs = <<>>
           ELSE StructRing(s) = EmptyRing
        /\ p.currentTab.ref \notin Refs(s)

C5_CloseCurrent == C5_On(prev, state) /\ C5_On(mprev, mstate)

\* The middle case: nothing to the right, two tabs to the left.
C5_Witness ==
    /\ last.type = "close-tab"
    /\ last.direction = 0
    /\ prev.rightTabs = <<>>
    /\ Len(prev.leftTabs) = 2
    /\ prev.currentTab.editorState.text # <<>>

\* C6: close-tab 0 on a ring whose leftTabs and rightTabs are empty,
\* whatever the current tab's text, yields the initial empty ring: one
\* fresh empty tab, never no tab; on the empty ring it yields the empty ring.
C6_On(p, s) ==
    (last.type = "close-tab" /\ last.direction = 0 /\ p.leftTabs = <<>> /\ p.rightTabs = <<>>) =>
        /\ StructRing(s) = EmptyRing
        /\ Len(Display(s)) = 1

C6_CloseLastTab == C6_On(prev, state) /\ C6_On(mprev, mstate)

\* The last tab, holding text, was closed.
C6_Witness ==
    /\ last.type = "close-tab"
    /\ last.direction = 0
    /\ prev.leftTabs = <<>>
    /\ prev.rightTabs = <<>>
    /\ Len(prev.currentTab.editorState.text) > TitleMax

\* C7: close-tab d with 1 <= d <= |rightTabs| removes the right tab at
\* 0-based index d - 1, keeps the others in order, and leaves currentTab and
\* leftTabs unchanged.
C7_On(p, s) ==
    (last.type = "close-tab" /\ last.direction >= 1 /\ last.direction <= Len(p.rightTabs)) =>
        /\ s.rightTabs = Without(p.rightTabs, last.direction)
        /\ s.currentTab = p.currentTab
        /\ s.leftTabs = p.leftTabs

C7_CloseRight == C7_On(prev, state) /\ C7_On(mprev, mstate)

\* rightTabs = [X, Y, Z] and direction 2.
C7_Witness ==
    /\ last.type = "close-tab"
    /\ last.direction = 2
    /\ Len(prev.rightTabs) = 3
    /\ state.rightTabs = <<prev.rightTabs[1], prev.rightTabs[3]>>

\* C8: close-tab d with -|leftTabs| <= d <= -1 removes the left tab at
\* 0-based index |leftTabs| + d, keeps the others in order, and leaves
\* currentTab and rightTabs unchanged.
C8_On(p, s) ==
    (last.type = "close-tab" /\ last.direction <= -1 /\ last.direction >= -Len(p.leftTabs)) =>
        /\ s.leftTabs = Without(p.leftTabs, Len(p.leftTabs) + last.direction + 1)
        /\ s.currentTab = p.currentTab
        /\ s.rightTabs = p.rightTabs

C8_CloseLeft == C8_On(prev, state) /\ C8_On(mprev, mstate)

\* leftTabs = [A, B, C] and direction -2: B is removed.
C8_Witness ==
    /\ last.type = "close-tab"
    /\ last.direction = -2
    /\ Len(prev.leftTabs) = 3
    /\ state.leftTabs = <<prev.leftTabs[1], prev.leftTabs[3]>>

\* C9: close-tab d with d > |rightTabs| or d < -|leftTabs| returns a state
\* with the same leftTabs, currentTab and rightTabs.
C9_On(p, s) ==
    (last.type = "close-tab" /\ (last.direction > Len(p.rightTabs) \/ last.direction < -Len(p.leftTabs))) =>
        /\ s.leftTabs = p.leftTabs
        /\ s.currentTab = p.currentTab
        /\ s.rightTabs = p.rightTabs

C9_CloseOutOfRange == C9_On(prev, state) /\ C9_On(mprev, mstate)

\* One step past the end of a non-empty side.
C9_Witness ==
    /\ last.type = "close-tab"
    /\ last.direction = -3
    /\ Len(prev.leftTabs) = 2
    /\ Len(prev.rightTabs) = 1

\* C10: new-tab appends the old current tab to leftTabs, makes a fresh tab
\* with empty text current, and leaves rightTabs unchanged.
C10_On(p, s) ==
    last.type = "new-tab" =>
        /\ s.leftTabs = p.leftTabs \o <<p.currentTab>>
        /\ Struct(s.currentTab) = [title |-> <<>>, text |-> <<>>]
        /\ s.currentTab.ref \notin Refs(p)
        /\ s.rightTabs = p.rightTabs

C10_NewTab == C10_On(prev, state) /\ C10_On(mprev, mstate)

\* A tab was opened in the middle of the ring.
C10_Witness ==
    /\ last.type = "new-tab"
    /\ Len(prev.leftTabs) = 1
    /\ Len(prev.rightTabs) = 1
    /\ prev.currentTab.editorState.text # <<>>

\* C11: edit-tab replaces only currentTab: its text becomes the action's text,
\* and leftTabs and rightTabs are the same sequences as before.
C11_On(p, s) ==
    last.type = "edit-tab" =>
        /\ s.currentTab.editorState.text = last.action.text
        /\ s.leftTabs = p.leftTabs
        /\ s.rightTabs = p.rightTabs

C11_EditTabOnlyCurrent == C11_On(prev, state) /\ C11_On(mprev, mstate)

\* The current tab was edited with tabs on both sides of it.
C11_Witness ==
    /\ last.type = "edit-tab"
    /\ Len(prev.leftTabs) >= 1
    /\ Len(prev.rightTabs) >= 1
    /\ last.action.text # prev.currentTab.editorState.text

\* C12: document edits replace the whole text: after change(t1) on a document
\* of text t0, change(t2) yields a document whose text is exactly t2.
C12_On(p, s, t2) ==
    /\ s.currentTab.editorState.text = last.action.text
    /\ EditorState_apply(s.currentTab.editorState, [type |-> "change", text |-> t2]).text = t2
    /\ EditorStateMachine_update(s.currentTab.editorState, [type |-> "change", text |-> t2]).text = t2

C12_FullReplace ==
    last.type = "edit-tab" => \A t2 \in Texts : C12_On(prev, state, t2) /\ C12_On(mprev, mstate, t2)

\* A non-empty text t0 was replaced by a different non-empty text t1.
C12_Witness ==
    /\ last.type = "edit-tab"
    /\ prev.currentTab.editorState.text # <<>>
    /\ last.action.text # <<>>
    /\ last.action.text # prev.currentTab.editorState.text
    /\ state.currentTab.editorState.text = last.action.text

\* The position of the first newline of t, Len(t) + 1 if it has none.
FirstNewline(t) ==
    IF \E i \in 1..Len(t) : t[i] = "\n"
    THEN CHOOSE i \in 1..Len(t) : t[i] = "\n" /\ \A j \in 1..(i - 1) : t[j] # "\n"
    ELSE Len(t) + 1

\* The derived title as the claim words it: the first line of t; "Untitled"
\* if that line is empty; the line itself if it has at most 10 characters;
\* else its first 10 characters followed by "...".
Derive(t) ==
    LET line == SubSeq(t, 1, FirstNewline(t) - 1)
    IN IF line = <<>> THEN Untitled
       ELSE IF Len(line) <= 10 THEN line
       ELSE SubSeq(line, 1, 10) \o <<".", ".", ".">>

\* C13: after edit-tab with text t the current tab's title is the derived
\* title of t; "" gives "Untitled", "HelloWorldXYZ\nrest" gives
\* "HelloWorld...", "Hi\nrest" gives "Hi".
C13_On(s) ==
    last.type = "edit-tab" =>
        /\ s.currentTab.title = Derive(last.action.text)
        /\ last.action.text = <<>> => s.currentTab.title = Untitled
        /\ last.action.text = <<"H", "i", "\n", "r", "e", "s", "t">> => s.currentTab.title = <<"H", "i">>
        /\ last.action.text = <<"H", "e", "l", "l", "o", "W", "o", "r", "l", "d", "X", "Y", "Z", "\n", "r", "e", "s", "t">>
               => s.currentTab.title = <<"H", "e", "l", "l", "o", "W", "o", "r", "l", "d", ".", ".", ".">>

C13_DerivedTitle == C13_On(state) /\ C13_On(mstate)

\* The text typed has a first line of 11 characters and a second line.
C13_Witness ==
    /\ last.type = "edit-tab"
    /\ last.action.text = TenChars \o <<"1", "\n", "x">>
    /\ state.currentTab.title = TenChars \o Ellipsis

\* The tabs of a snapshot, as title and text.
TabsOf(s) == {Struct(Display(s)[i]) : i \in 1..Len(Display(s))}

\* The tabs of the snapshots at hand: the current ones and the superseded ones.
TabsAtHand == TabsOf(state) \cup TabsOf(prev) \cup TabsOf(mstate) \cup TabsOf(mprev)

\* C14 as stated: any two tabs, in the same or in different reachable states,
\* that have equal text have equal title.
C14_TitleFunctionOfText ==
    \A a \in TabsAtHand : \A b \in TabsAtHand : a.text = b.text => a.title = b.title

\* C14, amended: in every state reachable from the empty ring a tab's title
\* is the derived title of its text, or "" when its text is empty and it was
\* never edited; the title its button shows is the derived title of its text.
C14_ShownTitleFunctionOfText ==
    \A t \in TabsAtHand :
        /\ t.title = Derive(t.text) \/ (t.title = <<>> /\ t.text = <<>>)
        /\ Shown(t.title) = Derive(t.text)

\* Two tabs of one snapshot have the same text and different stored titles,
\* and a third has a title cut to ten characters.
C14_Witness ==
    /\ \E a \in TabsOf(state) : \E b \in TabsOf(state) :
           a.text = b.text /\ a.title # b.title /\ Shown(a.title) = Shown(b.title)
    /\ \E c \in TabsOf(state) : Len(c.title) > TitleMax

\* The tab of snapshot s whose identity is ref.
TabOf(s, ref) == CHOOSE t \in {Display(s)[i] : i \in 1..Len(Display(s))} : t.ref = ref

\* C15: a tab created by new-tab, by the first start or by closing the last
\* tab has title ""; change-tab, new-tab and close-tab leave the title of
\* every tab they keep as it was, and edit-tab changes no tab but the current.
C15_On(p, s) ==
    /\ last.type = "new-tab" => s.currentTab.title = <<>> /\ s.currentTab.ref \notin Refs(p)
    /\ (last.type = "mount" /\ storage = null) => s.currentTab.title = <<>>
    /\ (last.type = "close-tab" /\ last.direction = 0 /\ Len(Display(p)) = 1) =>
           s.currentTab.title = <<>> /\ s.currentTab.ref \notin Refs(p)
    /\ last.type \in {"change-tab", "new-tab", "close-tab"} =>
           \A i \in 1..Len(Display(s)) :
               Display(s)[i].ref \in Refs(p) => Display(s)[i] = TabOf(p, Display(s)[i].ref)
    /\ last.type = "edit-tab" => s.leftTabs = p.leftTabs /\ s.rightTabs = p.rightTabs

C15_FreshTitleKept == C15_On(prev, state) /\ C15_On(mprev, mstate)

\* Two steps left from an edited tab, a tab never edited becomes current: its
\* title is still "".
C15_Witness ==
    /\ last.type = "change-tab"
    /\ last.direction = -2
    /\ Len(prev.leftTabs) >= 2
    /\ prev.currentTab.title # <<>>
    /\ state.currentTab.title = <<>>
    /\ mstate.currentTab.title = <<>>

\* C16: for every well-formed persisted value j, serializing the snapshot
\* deserialized from j gives j again: the same sequences, titles and texts,
\* whether or not a stored title is the one derived from its text.
C16_SerializeOfDeserialize ==
    (last.type = "mount" /\ storage # null) =>
        /\ TabbedEditorState_toJSON(state) = storage
        /\ TabbedEditorsMachine_save(mstate) = mstorage

\* App started from a persisted value with tabs on both sides and a stored
\* title that is not the derived one.
C16_Witness ==
    /\ last.type = "mount"
    /\ storage # null
    /\ Len(storage.leftTabs) = 1
    /\ Len(storage.rightTabs) = 1
    /\ storage.currentTab.title = Notes
    /\ state.currentTab.title = Notes
    /\ mstorage = storage

\* typeof v === "string", of a value where a string is expected.
IsString(v) == v # UndefinedStr /\ v # FiveStr

\* The tab entries of a stored value, as far as it has arrays and a current tab.
StoredTabs(json) ==
    (IF HasArray(json, "leftTabs") THEN {json.leftTabs[i] : i \in 1..Len(json.leftTabs)} ELSE {})
    \cup (IF HasArray(json, "rightTabs") THEN {json.rightTabs[i] : i \in 1..Len(json.rightTabs)} ELSE {})
    \cup (IF "currentTab" \in DOMAIN json THEN {json.currentTab} ELSE {})

\* The documents of a stored value: the editorState of each entry that has one.
StoredDocuments(json) == {t.editorState : t \in {u \in StoredTabs(json) : "editorState" \in DOMAIN u}}

\* The document has a string text field.
WellFormedDocument(json) == "text" \in DOMAIN json /\ IsString(json.text)

\* C17: deserializing a document fails whenever its input lacks a string text
\* field, and no document of a snapshot is built from such input: a start
\* from a stored value with such a document throws, and every tab of every
\* snapshot has a string as text.
C17_On(s, json) ==
    /\ (last.type = "mount" /\ json # null /\ \E d \in StoredDocuments(json) : ~WellFormedDocument(d)) =>
           s = Thrown
    /\ IsRing(s) => \A i \in 1..Len(Display(s)) : IsString(Display(s)[i].editorState.text)

C17_DocumentDeserializeFails == C17_On(state, storage) /\ C17_On(mstate, mstorage)

\* The tab entry is an object with a title and an editorState.
WellFormedTab(json) == "title" \in DOMAIN json /\ "editorState" \in DOMAIN json

\* The stored value has the arrays leftTabs and rightTabs and a currentTab,
\* and every tab entry is well-formed.
WellFormedRing(json) ==
    /\ HasArray(json, "leftTabs")
    /\ HasArray(json, "rightTabs")
    /\ "currentTab" \in DOMAIN json
    /\ \A t \in StoredTabs(json) : WellFormedTab(t)

\* C18: deserializing a ring fails whenever the stored shape does not match
\* (leftTabs or rightTabs missing or not an array, currentTab missing, a tab
\* entry that is not an object with a title and an editorState); no ring is
\* built from such a value.
C18_On(s, json) == (last.type = "mount" /\ json # null /\ ~WellFormedRing(json)) => s = Thrown

C18_RingDeserializeFails == C18_On(state, storage) /\ C18_On(mstate, mstorage)

ActionTypes == {"edit-tab", "change-tab", "new-tab", "close-tab"}

\* C19: apply returns a ring for each of the four action types, and an action
\* of any other type is surfaced as a failure: apply never returns undefined
\* for the reducer to put in place of the snapshot.
C19_On(s) ==
    /\ s # undefined
    /\ last.type \in ActionTypes => IsRing(s) /\ AllTabs(Display(s))
    /\ last.type \notin ActionTypes \cup {"mount", "none"} => s = Thrown

C19_ApplyTotalOrFails == C19_On(state) /\ C19_On(mstate)

\* C20: a transition leaves its input snapshot as it was.  The value persisted
\* by the last render is the serialized form of the snapshot the action was
\* applied to, whose tabs were the objects 1..n in display order: once apply
\* has returned, that snapshot still has the same sequences of the same tabs,
\* with the same titles and texts.
C20_Pure ==
    last.type \in ActionTypes =>
        /\ JSON_roundTrip(TabbedEditorState_toJSON(prev)) = storage
        /\ Renamed(prev) = prev
        /\ JSON_roundTrip(TabbedEditorsMachine_save(mprev)) = mstorage
        /\ Renamed(mprev) = mprev

\* The second tab to the left of the current one, of three, was closed: the
\* copy was reversed, spliced and reversed, and the input still has its three.
C20_Witness ==
    /\ last.type = "close-tab"
    /\ last.direction = -2
    /\ Len(prev.leftTabs) = 3
    /\ Len(state.leftTabs) = 2
    /\ Len(mprev.leftTabs) = 3
    /\ Len(mstate.leftTabs) = 2

\* C21 as stated: in every reachable state whose leftTabs and rightTabs are
\* both empty, currentTab is a freshly-created empty tab: text "" and title "".
C21_SoleOn(s) == (s.leftTabs = <<>> /\ s.rightTabs = <<>>) => Struct(s.currentTab) = EmptyRing.currentTab

C21_SoleTabIsFresh == C21_SoleOn(state) /\ C21_SoleOn(mstate)

\* C21, amended: in every reachable state whose leftTabs and rightTabs are
\* both empty there is a current tab: a freshly-created empty one (text "",
\* title "") unless it has been edited, and then its title is the derived
\* title of its text.
C21_On(s) ==
    (s.leftTabs = <<>> /\ s.rightTabs = <<>>) =>
        /\ IsTab(s.currentTab)
        /\ \/ Struct(s.currentTab) = EmptyRing.currentTab
           \/ s.currentTab.title = Derive(s.currentTab.editorState.text)

C21_SoleTabFreshOrEdited == C21_On(state) /\ C21_On(mstate)

\* The only tab of the ring holds text.
C21_Witness ==
    /\ state.leftTabs = <<>>
    /\ state.rightTabs = <<>>
    /\ state.currentTab.editorState.text # <<>>
    /\ mstate.leftTabs = <<>>
    /\ mstate.rightTabs = <<>>
    /\ mstate.currentTab.editorState.text # <<>>

Abs(n) == IF n < 0 THEN -n ELSE n

\* k successive applications of the single-step move, to the right or to the left.
RECURSIVE StepsOf(_, _, _)
StepsOf(s, k, right) ==
    IF k = 0 THEN s
    ELSE IF right THEN TabbedEditorState_changeTabRight(StepsOf(s, k - 1, right))
    ELSE TabbedEditorState_changeTabLeft(StepsOf(s, k - 1, right))

RECURSIVE changeTab_stepsOf(_, _, _)
changeTab_stepsOf(s, k, right) ==
    IF k = 0 THEN s
    ELSE IF right THEN changeTabRight(changeTab_stepsOf(s, k - 1, right))
    ELSE changeTabLeft(changeTab_stepsOf(s, k - 1, right))

\* The loop is over: what it returns is what change-tab d returns, and that
\* is |d| single steps applied to the input; with d = 0 it is the input.
C22_Returned ==
    last.direction = 0 =>
        /\ state = TabbedEditorState_changeTab(prev, last.called)
        /\ state = StepsOf(prev, Abs(last.called), last.called > 0)
        /\ mstate = changeTab(mprev, last.called)
        /\ mstate = changeTab_stepsOf(mprev, Abs(last.called), last.called > 0)
        /\ last.called = 0 => state = prev /\ mstate = mprev

\* C22: change-tab d terminates for every d, and what it returns is exactly
\* |d| successive single steps (right for d > 0, left for d < 0), each step
\* testing on its own whether its side is empty; with d = 0 the state is
\* returned unchanged.
C22_ChangeTabTerminates == [](C22_Returned) /\ <>(last.direction = 0)

\* The loop ran three turns to the right on a ring with one tab to the right:
\* the last two turns were no-ops.
C22_Witness ==
    /\ last.called = 3
    /\ last.direction = 0
    /\ Len(prev.rightTabs) = 1
    /\ Len(prev.leftTabs) = 1
    /\ state.rightTabs = <<>>
    /\ state.currentTab = prev.rightTabs[1]

\* C23: the class variant and the records-and-functions variant are the same
\* transition function: started from their empty rings and fed the same
\* actions, after every step both hold equal leftTabs, currentTab and
\* rightTabs, with the same titles and texts in the same order.
C23_SameTransitionFunction == StructRing(state) = StructRing(mstate)

\* Both variants closed the nearest left tab of a ring with tabs on both
\* sides and texts that differ.
C23_Witness ==
    /\ last.type = "close-tab"
    /\ last.direction = -1
    /\ Len(prev.leftTabs) >= 2
    /\ Len(state.leftTabs) = Len(prev.leftTabs) - 1
    /\ Len(mstate.leftTabs) = Len(mprev.leftTabs) - 1
    /\ Len(state.rightTabs) >= 1
    /\ state.currentTab.editorState.text # state.rightTabs[1].editorState.text

\* App started: from the deserialized persisted value if there is one, from
\* the empty ring otherwise.
C24_Started ==
    last.type = "mount" =>
        /\ storage # null => state = TabbedEditorState_fromJSON(storage)
        /\ storage = null => StructRing(state) = EmptyRing
        /\ mstorage # null => mstate = TabbedEditorsMachine_init(mstorage)
        /\ mstorage = null => StructRing(mstate) = EmptyRing

\* No effect is pending: the persisted value is the serialization of the
\* current snapshot, and a restart from it reproduces the snapshot.
C24_Settled ==
    last.type = "none" =>
        /\ storage = TabbedEditorState_toJSON(state)
        /\ StructRing(App_initialState(storage)) = StructRing(state)
        /\ mstorage = TabbedEditorsMachine_save(mstate)
        /\ StructRing(TabbedEditorsMachine_init(mstorage)) = StructRing(mstate)

\* C24: the application starts from the deserialized persisted value if one
\* exists and from the empty ring otherwise; after every dispatched action
\* the persist effect eventually runs, and once no effect is pending the
\* persisted value is the serialization of the current snapshot and a
\* restart from it reproduces that snapshot.
C24_PersistsEventually ==
    /\ [](C24_Started /\ C24_Settled)
    /\ [](last.type # "none" => <>(last.type = "none"))

\* After a restart from a persisted ring and an edit, the effect has written
\* the edited ring.
C24_Witness ==
    /\ last.type = "none"
    /\ storage # null
    /\ Len(storage.leftTabs) = 1
    /\ storage.leftTabs[1].title = Notes
    /\ storage.currentTab.editorState.text = HiRest
    /\ storage.currentTab.title = <<"H", "i">>
    /\ mstorage = storage

\* C25: navigation only moves the pointer: after change-tab, for every
\* direction, leftTabs ++ [currentTab] ++ rightTabs is element for element
\* the sequence it was before, the same tabs in the same order.
C25_On(p, s) == last.type = "change-tab" => Display(s) = Display(p)

C25_ChangeTabKeepsOrder == C25_On(prev, state) /\ C25_On(mprev, mstate)

\* The pointer moved two tabs to the left in a ring with a tab to the right.
C25_Witness ==
    /\ last.type = "change-tab"
    /\ last.direction = -2
    /\ Len(prev.leftTabs) >= 2
    /\ Len(prev.rightTabs) >= 1
    /\ Len(state.rightTabs) = Len(prev.rightTabs) + 2
    /\ Len(mstate.rightTabs) = Len(mprev.rightTabs) + 2

\* b has the sign of a, or one of them is 0.
SameSign(a, b) == (a >= 0 /\ b >= 0) \/ (a <= 0 /\ b <= 0)

\* C26: navigation composes additively for directions of the same sign:
\* change-tab a followed by change-tab b yields the state a single
\* change-tab (a + b) yields, also when a step is clamped.
C26_Additive ==
    last.type = "change-tab" =>
        \A b \in {d \in Directions : SameSign(last.direction, d)} :
            /\ TabbedEditorState_changeTab(state, b) = TabbedEditorState_changeTab(prev, last.direction + b)
            /\ changeTab(mstate, b) = changeTab(mprev, last.direction + b)

\* The pointer moved two of three tabs to the right: a further change-tab 1
\* moves, a further change-tab 2 is clamped.
C26_Witness ==
    /\ last.type = "change-tab"
    /\ last.direction = 2
    /\ Len(prev.rightTabs) = 3
    /\ Len(state.rightTabs) = 1
    /\ TabbedEditorState_changeTab(state, 2) = TabbedEditorState_changeTab(state, 1)
    /\ TabbedEditorState_changeTab(state, 1) # state

\* C27: navigation is invertible inside the ring: for every d with
\* -|leftTabs| <= d <= |rightTabs|, change-tab d followed by change-tab -d
\* returns exactly the original state.
C27_On(p, s) == -Len(p.leftTabs) <= last.direction /\ last.direction <= Len(p.rightTabs)

C27_Invertible ==
    last.type = "change-tab" =>
        /\ C27_On(prev, state) => TabbedEditorState_changeTab(state, -last.direction) = prev
        /\ C27_On(mprev, mstate) => changeTab(mstate, -last.direction) = mprev

\* The pointer moved two tabs to the right, to the last tab, from a ring
\* with a tab to the left.
C27_Witness ==
    /\ last.type = "change-tab"
    /\ last.direction = 2
    /\ Len(prev.leftTabs) = 1
    /\ Len(prev.rightTabs) = 2
    /\ state.rightTabs = <<>>
    /\ state # prev

\* The place (1-based, in display order) of the tab at signed offset d from
\* the current tab of p.
PlaceOf(p, d) == Len(p.leftTabs) + 1 + d

\* C28: close-tab and change-tab address tabs by the same signed offset: for
\* every non-zero d with -|leftTabs| <= d <= |rightTabs|, the tab close-tab d
\* removes is the tab change-tab d would make current, and the display order
\* after close-tab d is the original one with that one tab deleted.
C28_Class(p, s) ==
    (last.direction # 0 /\ -Len(p.leftTabs) <= last.direction /\ last.direction <= Len(p.rightTabs)) =>
        LET target == TabbedEditorState_changeTab(p, last.direction).currentTab
        IN /\ target = Display(p)[PlaceOf(p, last.direction)]
           /\ target.ref \notin Refs(s)
           /\ Display(s) = Without(Display(p), PlaceOf(p, last.direction))
           /\ s.currentTab = p.currentTab

C28_Machine(p, s) ==
    (last.direction # 0 /\ -Len(p.leftTabs) <= last.direction /\ last.direction <= Len(p.rightTabs)) =>
        LET target == changeTab(p, last.direction).currentTab
        IN /\ target = Display(p)[PlaceOf(p, last.direction)]
           /\ target.ref \notin Refs(s)
           /\ Display(s) = Without(Display(p), PlaceOf(p, last.direction))
           /\ s.currentTab = p.currentTab

C28_SameOffset == last.type = "close-tab" => C28_Class(prev, state) /\ C28_Machine(mprev, mstate)

\* The second tab to the left, of three, was closed.
C28_Witness ==
    /\ last.type = "close-tab"
    /\ last.direction = -2
    /\ Len(prev.leftTabs) = 3
    /\ Len(prev.rightTabs) = 0
    /\ state.leftTabs = <<prev.leftTabs[1], prev.leftTabs[3]>>
    /\ mstate.leftTabs = <<mprev.leftTabs[1], mprev.leftTabs[3]>>

\* C29: tab buttons select the tab they show: in every reachable state, once
\* rendered, for each button of the Tabbar its change-tab action makes the tab at
\* the button's display position the current tab, is not clamped, and
\* leaves the display order of all tabs unchanged.
C29_Class(s) ==
    \A k \in 1..Len(Tabbar(s)) :
        LET button == Tabbar(s)[k]
            clicked == TabbedEditorState_apply(s, [type |-> "change-tab", direction |-> button.direction])
        IN /\ button.tab = Display(s)[k]
           /\ clicked.currentTab = Display(s)[k]
           /\ Len(clicked.leftTabs) = k - 1
           /\ Display(clicked) = Display(s)

C29_Machine(s) ==
    \A k \in 1..Len(Tabbar(s)) :
        LET button == Tabbar(s)[k]
            clicked == TabbedEditorsMachine_update(s, [type |-> "change-tab", direction |-> button.direction])
        IN /\ button.tab = Display(s)[k]
           /\ clicked.currentTab = Display(s)[k]
           /\ Len(clicked.leftTabs) = k - 1
           /\ Display(clicked) = Display(s)

C29_ButtonsSelect == last.type = "none" => C29_Class(state) /\ C29_Machine(mstate)

\* The leftmost button of a ring with two tabs to the left and one to the
\* right was clicked.
C29_Witness ==
    /\ last.type = "change-tab"
    /\ Len(prev.leftTabs) = 2
    /\ Len(prev.rightTabs) = 1
    /\ last.direction = Tabbar(prev)[1].direction
    /\ state.currentTab = prev.leftTabs[1]
    /\ state.leftTabs = <<>>

\* The snapshots after 0, 1, ..., k applications of close-tab 0.
RECURSIVE Closes(_, _)
Closes(s, k) ==
    IF k = 0 THEN <<s>>
    ELSE LET before == Closes(s, k - 1)
         IN Append(before, TabbedEditorState_apply(before[k], [type |-> "close-tab", direction |-> 0]))

RECURSIVE update_closes(_, _)
update_closes(s, k) ==
    IF k = 0 THEN <<s>>
    ELSE LET before == update_closes(s, k - 1)
         IN Append(before, TabbedEditorsMachine_update(before[k], [type |-> "close-tab", direction |-> 0]))

\* C30: repeated close-tab 0 drains the ring without ever emptying it: from
\* a snapshot with n tabs that App holds between two actions, after k < n
\* applications the ring has n - k tabs, after n applications it is the
\* initial empty ring, and it stays the empty ring under further close-tab 0;
\* a dispatched close-tab 0 is the first of these applications.
C30_Drains ==
    /\ last.type = "none" =>
           LET n == Len(Display(state))
               closes == Closes(state, n + 2)
               mcloses == update_closes(mstate, n + 2)
           IN /\ \A k \in 0..(n - 1) :
                     /\ Len(Display(closes[k + 1])) = n - k
                     /\ Len(Display(mcloses[k + 1])) = n - k
              /\ \A k \in n..(n + 2) :
                     /\ StructRing(closes[k + 1]) = EmptyRing
                     /\ StructRing(mcloses[k + 1]) = EmptyRing
    /\ (last.type = "close-tab" /\ last.direction = 0) =>
           /\ state = Closes(prev, 1)[2]
           /\ mstate = update_closes(mprev, 1)[2]
           /\ Len(Display(prev)) > 1 => Len(Display(state)) = Len(Display(prev)) - 1

\* The current tab of a ring of four tabs, with tabs on both sides and text
\* in its last tab, was closed.
C30_Witness ==
    /\ last.type = "close-tab"
    /\ last.direction = 0
    /\ Len(prev.leftTabs) = 2
    /\ Len(prev.rightTabs) = 1
    /\ Len(Display(state)) = 3
    /\ state.leftTabs[1].editorState.text # <<>>

\* The tabs of snapshot s other than the current one.
SideTabs(s) == s.leftTabs \o s.rightTabs

\* The directions that stay inside the ring of snapshot s.
Inside(s) == {d \in Directions : -Len(s.leftTabs) <= d /\ d <= Len(s.rightTabs)}

\* C31: only edit-tab changes a tab's contents, and only the current tab's:
\* every tab that survives a change-tab, new-tab or close-tab has the same
\* title and text afterwards, after edit-tab every tab of leftTabs and
\* rightTabs has the same title and text, and the text typed into a tab is
\* still its text after navigating away from it and back.
C31_Survivors(p, s) ==
    LET before == Display(p)
        after == Display(s)
    IN \A i \in 1..Len(after) : \A j \in 1..Len(before) :
           after[i].ref = before[j].ref => Struct(after[i]) = Struct(before[j])

C31_Class(p, s) ==
    /\ last.type \in {"change-tab", "new-tab", "close-tab"} => C31_Survivors(p, s)
    /\ last.type = "edit-tab" =>
           /\ StructAll(SideTabs(s)) = StructAll(SideTabs(p))
           /\ \A d \in Inside(s) :
                  LET away == TabbedEditorState_changeTab(s, d)
                      back == TabbedEditorState_changeTab(away, -d)
                  IN /\ TabOf(away, s.currentTab.ref).editorState.text = last.action.text
                     /\ back.currentTab.ref = s.currentTab.ref
                     /\ back.currentTab.editorState.text = last.action.text

C31_Machine(p, s) ==
    /\ last.type \in {"change-tab", "new-tab", "close-tab"} => C31_Survivors(p, s)
    /\ last.type = "edit-tab" =>
           /\ StructAll(SideTabs(s)) = StructAll(SideTabs(p))
           /\ \A d \in Inside(s) :
                  LET away == changeTab(s, d)
                      back == changeTab(away, -d)
                  IN /\ TabOf(away, s.currentTab.ref).editorState.text = last.action.text
                     /\ back.currentTab.ref = s.currentTab.ref
                     /\ back.currentTab.editorState.text = last.action.text

C31_OnlyEditChangesContents == C31_Class(prev, state) /\ C31_Machine(mprev, mstate)

\* A tab was opened from a tab with text, between tabs with text: the three
\* of them are kept and a fourth is new.
C31_Witness ==
    /\ last.type = "new-tab"
    /\ Len(prev.leftTabs) = 1
    /\ Len(prev.rightTabs) = 1
    /\ prev.currentTab.editorState.text # <<>>
    /\ prev.leftTabs[1].editorState.text # <<>>
    /\ prev.rightTabs[1].editorState.text # <<>>
    /\ Len(state.leftTabs) = 2
    /\ state.leftTabs[2].ref = prev.currentTab.ref

\* new-tab immediately followed by close-tab 0, from snapshot s.
OpenThenClose(s) ==
    TabbedEditorState_apply(TabbedEditorState_apply(s, [type |-> "new-tab"]), [type |-> "close-tab", direction |-> 0])

update_openThenClose(s) ==
    TabbedEditorsMachine_update(TabbedEditorsMachine_update(s, [type |-> "new-tab"]), [type |-> "close-tab", direction |-> 0])

\* C32: new-tab immediately followed by close-tab 0 yields the same state as
\* a single change-tab +1, and when rightTabs is empty the pair returns
\* exactly the original state; a dispatched new-tab is the first of the pair.
C32_OpenCloseIsStepRight ==
    /\ last.type = "none" =>
           /\ OpenThenClose(state) = TabbedEditorState_changeTab(state, 1)
           /\ update_openThenClose(mstate) = changeTab(mstate, 1)
           /\ state.rightTabs = <<>> => OpenThenClose(state) = state
           /\ mstate.rightTabs = <<>> => update_openThenClose(mstate) = mstate
    /\ last.type = "new-tab" =>
           /\ TabbedEditorState_apply(state, [type |-> "close-tab", direction |-> 0]) = TabbedEditorState_changeTab(prev, 1)
           /\ TabbedEditorsMachine_update(mstate, [type |-> "close-tab", direction |-> 0]) = changeTab(mprev, 1)
           /\ state = TabbedEditorState_apply(prev, [type |-> "new-tab"])
           /\ mstate = TabbedEditorsMachine_update(mprev, [type |-> "new-tab"])

\* A tab was opened from a tab with text that has a tab with text to its
\* right and one to its left: closing the new tab makes the right one current.
C32_Witness ==
    /\ last.type = "new-tab"
    /\ Len(prev.leftTabs) = 1
    /\ Len(prev.rightTabs) = 1
    /\ prev.currentTab.editorState.text # <<>>
    /\ prev.rightTabs[1].editorState.text # prev.currentTab.editorState.text
    /\ TabbedEditorState_apply(state, [type |-> "close-tab", direction |-> 0]).currentTab = prev.rightTabs[1]
    /\ TabbedEditorState_apply(state, [type |-> "close-tab", direction |-> 0]) # prev

\* C33: in every state reachable from the empty ring by any action sequence,
\* every tab's title has at most 13 characters and contains no newline
\* character, whatever the length of the edited text.
C33_On(s) ==
    \A i \in 1..Len(Display(s)) :
        /\ Len(Display(s)[i].title) <= 13
        /\ \A j \in 1..Len(Display(s)[i].title) : Display(s)[i].title[j] # "\n"

C33_TitleBounded == C33_On(state) /\ C33_On(mstate) /\ C33_On(prev) /\ C33_On(mprev)

\* Beside a tab whose text is one line of twenty characters and whose title
\* has thirteen, the text typed has an eleventh character before a carriage
\* return and a newline.
C33_Witness ==
    /\ last.type = "edit-tab"
    /\ last.action.text = TenChars \o <<"\r", "\n", "x">>
    /\ Len(state.leftTabs) = 1
    /\ state.leftTabs[1].editorState.text = TenChars \o TenChars
    /\ Len(state.leftTabs[1].title) = 13
    /\ state.currentTab.title = TenChars \o Ellipsis

====
